---- MODULE Spec2Model ----
(***************************************************************************)
(* Model of text-summarizer.py: the driver main (argument parsing,         *)
(* credential check, input resolution, validation, client construction,    *)
(* the single remote call, printing) and the pure function build_prompt.   *)
(*                                                                         *)
(* A Python str is a sequence of tokens.  Text that comes from outside     *)
(* (arguments, files, stdin, the remote content) is a sequence of one-     *)
(* character tokens over Chars; the program's fixed phrases are one token  *)
(* each.  An Optional[str] is a record [set, val]: None is NoneVal.        *)
(***************************************************************************)
EXTENDS Integers, Sequences, FiniteSets, TLC

VARIABLES
    argv,      \* the command-line options as supplied by the caller
    apiKey,    \* os.environ["OPENAI_API_KEY"] (None when unset)
    pc,        \* position of main
    args,      \* the parsed argparse.Namespace (valid once pc is past "parse")
    raw,       \* what read_input returned (None before it returned)
    text,      \* main's local `text`
    client,    \* TRUE once OpenAI(api_key=...) returned
    response,  \* outcome of client.chat.completions.create (kind "none" before)
    request,   \* the keyword arguments of the remote call (kind "none" before)
    summary,   \* main's local `summary`
    stdout,    \* what was printed to sys.stdout, in order
    stderr,    \* what was printed to sys.stderr, in order
    log,       \* interactions with the outside, in order
    outcome,   \* how main ended: running, return <code>, raise <exc>
    call       \* a direct call of build_prompt: its arguments and result

vars == <<argv, apiKey, pc, args, raw, text, client, response, request,
          summary, stdout, stderr, log, outcome, call>>

-----------------------------------------------------------------------------
(* Bounds *)

MaxLen == 2          \* longest external text (argument, file, stdin, content)
MaxWordsBound == 120 \* largest max_words passed to build_prompt directly
MinWordsBound == 3   \* build_prompt is also called with -MinWordsBound..-1

-----------------------------------------------------------------------------
(* Strings *)

Chars == {" ", "\n", "X"}

IsSpace(c) == c \in {" ", "\n"}

RECURSIVE SeqsUpTo(_, _)
SeqsUpTo(S, n) ==
    IF n = 0 THEN {<<>>}
    ELSE LET shorter == SeqsUpTo(S, n - 1)
         IN  shorter \cup {Append(s, c) : s \in {t \in shorter : Len(t) = n - 1}, c \in S}

Texts == SeqsUpTo(Chars, MaxLen)

NoneVal == [set |-> FALSE, val |-> <<>>]
Some(s) == [set |-> TRUE, val |-> s]

\* Python truthiness of an Optional[str]: None and "" are falsy.
Truthy(o) == o.set /\ Len(o.val) > 0

RECURSIVE LStrip(_)
LStrip(s) == IF s # <<>> /\ IsSpace(Head(s)) THEN LStrip(Tail(s)) ELSE s

RECURSIVE RStrip(_)
RStrip(s) ==
    IF s # <<>> /\ IsSpace(s[Len(s)]) THEN RStrip(SubSeq(s, 1, Len(s) - 1)) ELSE s

StripIdentity(s) == s

\* str.strip()
Strip(s) == RStrip(LStrip(s))

Digits == <<"0", "1", "2", "3", "4", "5", "6", "7", "8", "9">>

RECURSIVE DecNat(_)
DecNat(n) ==
    IF n < 10 THEN <<Digits[n + 1]>>
    ELSE Append(DecNat(n \div 10), Digits[(n % 10) + 1])

\* f"{max_words}" for an int
Dec(n) == IF n < 0 THEN <<"-">> \o DecNat(0 - n) ELSE DecNat(n)

-----------------------------------------------------------------------------
(* build_prompt *)

BulletsInstr == "Return a bullet-point summary (5-10 bullets)."  \* en dash in the source
TldrInstr == "Return a TL;DR (1-2 sentences), then a short paragraph summary."
ParagraphInstr == "Return a concise paragraph summary."
KeepFactsLine == "Preserve key facts, numbers, names, and causal relationships."
SaySoLine == "If the text is unclear or missing info, say so briefly."

style_instr(style) ==
    IF style = "bullets" THEN BulletsInstr
    ELSE IF style = "tl;dr" THEN TldrInstr
    ELSE ParagraphInstr

build_prompt_swapped(style, max_words) ==
    <<(IF style = "tl;dr" THEN BulletsInstr
       ELSE IF style = "bullets" THEN TldrInstr ELSE ParagraphInstr), "\n",
      "Keep it under about ">> \o Dec(max_words) \o
    <<" words", ".", "\n", KeepFactsLine, "\n", SaySoLine, "\n">>

build_prompt(style, max_words) ==
    <<style_instr(style), "\n", "Keep it under about ">> \o Dec(max_words) \o
    <<" words", ".", "\n", KeepFactsLine, "\n", SaySoLine, "\n">>

-----------------------------------------------------------------------------
(* summarize *)

system_msg == "You are a helpful assistant that summarizes text accurately and concisely."

NoRequest == [kind |-> "none", model |-> "", messages |-> <<>>, temperature |-> ""]

\* the keyword arguments of client.chat.completions.create
BuildRequest(txt, model, style, max_words) ==
    [kind |-> "create",
     model |-> model,
     messages |-> <<[role |-> "system", content |-> <<system_msg>>],
                    [role |-> "user",
                     content |-> build_prompt(style, max_words)
                                 \o <<"\n", "\n", "TEXT:", "\n">> \o txt]>>,
     temperature |-> "0.2"]

NoResponse == [kind |-> "none", choices |-> <<>>, msg |-> <<>>]

OtherContent == <<"X", "X", "X">>

RemoteErrors == {<<"rate limit">>, <<"connection error">>, <<>>}

\* What the remote call can do: raise an error with a message, or return a
\* response with zero or more choices whose content is a str or None.
RemoteOutcomes ==
    {[kind |-> "raise", choices |-> <<>>, msg |-> m] : m \in RemoteErrors}
    \cup {[kind |-> "ok", choices |-> <<>>, msg |-> <<>>]}
    \cup {[kind |-> "ok", choices |-> <<NoneVal>>, msg |-> <<>>]}
    \cup {[kind |-> "ok", choices |-> <<Some(c)>>, msg |-> <<>>] : c \in Texts}
    \cup {[kind |-> "ok", choices |-> <<Some(c), Some(OtherContent)>>, msg |-> <<>>] : c \in Texts}

LastChoice(resp) == resp.choices[Len(resp.choices)]

\* resp.choices[0]
FirstChoice(resp) == resp.choices[1]

\* line 68: resp.choices[0].message.content.strip(), or the error it raises
Extract(resp) ==
    IF resp.kind = "raise" THEN [ok |-> FALSE, val |-> <<>>, msg |-> resp.msg]
    ELSE IF Len(resp.choices) = 0
         THEN [ok |-> FALSE, val |-> <<>>, msg |-> <<"list index out of range">>]
    ELSE IF ~FirstChoice(resp).set
         THEN [ok |-> FALSE, val |-> <<>>,
               msg |-> <<"'NoneType' object has no attribute 'strip'">>]
    ELSE [ok |-> TRUE, val |-> Strip(FirstChoice(resp).val), msg |-> <<>>]

-----------------------------------------------------------------------------
(* Command line and environment *)

DefaultModel == "gpt-4.1-mini"
DefaultStyle == "paragraph"
DefaultMaxWords == 150

StyleChoices == {"paragraph", "bullets", "tl;dr"}

TextArgs == {NoneVal} \cup {Some(t) : t \in Texts}
FileArgs == {NoneVal, Some(<<>>), Some(<<"f">>)}
ModelArgs == {NoneVal, Some(<<"other-model">>)}
StyleArgs == {NoneVal} \cup {Some(<<s>>) : s \in StyleChoices \cup {"unknown"}}
MaxWordsArgs == {NoneVal, Some(<<"5", "0">>), Some(<<"-", "5">>), Some(<<"X">>)}
ApiKeys == {NoneVal, Some(<<>>), Some(<<"sk">>)}

DigitValue(c) == CHOOSE d \in 0..9 : Digits[d + 1] = c

IsDigits(s) == s # <<>> /\ \A i \in 1..Len(s) : \E d \in 1..10 : Digits[d] = s[i]

RECURSIVE NatOf(_)
NatOf(s) == IF s = <<>> THEN 0 ELSE 10 * NatOf(SubSeq(s, 1, Len(s) - 1)) + DigitValue(s[Len(s)])

\* type=int of --max-words: int(s) for an optional sign and decimal digits
IsInt(s) == IF s # <<>> /\ Head(s) = "-" THEN IsDigits(Tail(s)) ELSE IsDigits(s)
IntOf(s) == IF Head(s) = "-" THEN 0 - NatOf(Tail(s)) ELSE NatOf(s)

\* number of options of the mutually exclusive group present on the command line
SourcesGiven(av) ==
    (IF av.text.set THEN 1 ELSE 0) + (IF av.file.set THEN 1 ELSE 0)
    + (IF av.stdin THEN 1 ELSE 0)

MutexViolatedAllThree(av) == SourcesGiven(av) > 2

\* add_mutually_exclusive_group: two options of the group on one command line
MutexViolated(av) == SourcesGiven(av) > 1

\* the errors parse_args can report for this command line
ParseErrors(av) ==
    (IF MutexViolated(av) THEN {"not allowed with argument"} ELSE {})
    \cup (IF av.style.set /\ av.style.val[1] \notin StyleChoices
          THEN {"argument --style: invalid choice"} ELSE {})
    \cup (IF av.max_words.set /\ ~IsInt(av.max_words.val)
          THEN {"argument --max-words: invalid int value"} ELSE {})

NoArgs == [text |-> NoneVal, file |-> NoneVal, stdin |-> FALSE,
           model |-> "", style |-> "", max_words |-> 0]

\* the Namespace parse_args returns
Namespace(av) ==
    [text |-> av.text, file |-> av.file, stdin |-> av.stdin,
     model |-> IF av.model.set THEN av.model.val[1] ELSE DefaultModel,
     style |-> IF av.style.set THEN av.style.val[1] ELSE DefaultStyle,
     max_words |-> IF av.max_words.set THEN IntOf(av.max_words.val) ELSE DefaultMaxWords]

Running == [kind |-> "running", code |-> 0, exc |-> ""]
Return(c) == [kind |-> "return", code |-> c, exc |-> ""]
Raise(e, c) == [kind |-> "raise", code |-> c, exc |-> e]

IdleCall == [style |-> "", max_words |-> 0, returned |-> FALSE, result |-> <<>>]

-----------------------------------------------------------------------------
(* main *)

Init ==
    /\ argv \in [text : TextArgs, file : FileArgs, stdin : BOOLEAN,
                 model : ModelArgs, style : StyleArgs, max_words : MaxWordsArgs]
    /\ apiKey \in ApiKeys
    /\ pc = "parse"
    /\ args = NoArgs
    /\ raw = NoneVal
    /\ text = <<>>
    /\ client = FALSE
    /\ response = NoResponse
    /\ request = NoRequest
    /\ summary = <<>>
    /\ stdout = <<>>
    /\ stderr = <<>>
    /\ log = <<>>
    /\ outcome = Running
    /\ call = IdleCall

\* lines 72-80
ParseArgs ==
    /\ pc = "parse"
    /\ IF ParseErrors(argv) # {}
       THEN /\ \E e \in ParseErrors(argv) : stderr' = Append(stderr, <<"usage: ", e>>)
            /\ outcome' = Raise("SystemExit", 2)
            /\ pc' = "exit"
            /\ args' = args
       ELSE /\ args' = Namespace(argv)
            /\ pc' = "cred"
            /\ UNCHANGED <<stderr, outcome>>
    /\ UNCHANGED <<argv, apiKey, raw, text, client, response, request, summary,
                   stdout, log, call>>

CredentialMissingUnsetOnly(key) == ~key.set

\* line 83: not api_key
CredentialMissing(key) == ~Truthy(key)

ReportErrorToStdout(msg, out, err) ==
    [stdout |-> Append(out, [what |-> "error", text |-> msg]), stderr |-> err]

\* print(msg, file=sys.stderr), lines 84, 89, 97
ReportError(msg, out, err) == [stdout |-> out, stderr |-> Append(err, msg)]

CredentialError == <<"ERROR: ", "OPENAI_API_KEY", " is not set in your environment.">>
NoInputError == <<"ERROR: No input text provided.">>

FormatErrorBare(m) == m

\* line 97: f"ERROR: {e}"
FormatError(m) == <<"ERROR: ">> \o m

\* lines 82-85
CheckCredential ==
    /\ pc = "cred"
    /\ IF CredentialMissing(apiKey)
       THEN /\ stdout' = ReportError(CredentialError, stdout, stderr).stdout
            /\ stderr' = ReportError(CredentialError, stdout, stderr).stderr
            /\ outcome' = Return(2)
            /\ pc' = "exit"
       ELSE /\ pc' = "read"
            /\ UNCHANGED <<stdout, stderr, outcome>>
    /\ UNCHANGED <<argv, apiKey, args, raw, text, client, response, request,
                   summary, log, call>>

\* read_input's choice of source, lines 20, 23, 27, 30
InputSource(a) ==
    IF Truthy(a.text) THEN "text"
    ELSE IF Truthy(a.file) THEN "file"
    ELSE IF a.stdin THEN "stdin"
    ELSE "interactive"

InteractivePrompt ==
    [what |-> "prompt",
     text |-> <<"Paste text to summarize, then end input (Ctrl+D on mac/linux, Ctrl+Z then Enter on windows):">>]

\* open(...) and f.read(): the contents, or the error raised
FileOutcomes ==
    {[ok |-> TRUE, val |-> t, exc |-> ""] : t \in Texts}
    \cup {[ok |-> FALSE, val |-> <<>>, exc |-> e] : e \in {"OSError", "UnicodeDecodeError"}}

\* sys.stdin.read(): the contents, or the error raised
StdinOutcomes ==
    {[ok |-> TRUE, val |-> t, exc |-> ""] : t \in Texts}
    \cup {[ok |-> FALSE, val |-> <<>>, exc |-> "UnicodeDecodeError"]}

\* line 87: text = read_input(args).strip(), with read_input lines 19-31
ResolveInput ==
    /\ pc = "read"
    /\ LET src == InputSource(args)
           out == IF src = "interactive" THEN Append(stdout, InteractivePrompt) ELSE stdout
           evs == IF src = "text" THEN <<>>
                  ELSE IF src = "file" THEN <<"open_file">>
                  ELSE IF src = "stdin" THEN <<"read_stdin">>
                  ELSE <<"prompt", "read_stdin">>
           outs == IF src = "text" THEN {[ok |-> TRUE, val |-> args.text.val, exc |-> ""]}
                   ELSE IF src = "file" THEN FileOutcomes
                   ELSE StdinOutcomes
       IN  /\ stdout' = out
           /\ log' = log \o evs
           /\ \E o \in outs :
                IF o.ok
                THEN /\ raw' = Some(o.val)
                     /\ text' = Strip(o.val)
                     /\ pc' = "validate"
                     /\ outcome' = outcome
                ELSE /\ outcome' = Raise(o.exc, 1)
                     /\ pc' = "exit"
                     /\ UNCHANGED <<raw, text>>
    /\ UNCHANGED <<argv, apiKey, args, client, response, request, summary, stderr, call>>

\* lines 88-90
ValidateInput ==
    /\ pc = "validate"
    /\ IF text = <<>>
       THEN /\ stdout' = ReportError(NoInputError, stdout, stderr).stdout
            /\ stderr' = ReportError(NoInputError, stdout, stderr).stderr
            /\ outcome' = Return(2)
            /\ pc' = "exit"
       ELSE /\ pc' = "client"
            /\ UNCHANGED <<stdout, stderr, outcome>>
    /\ UNCHANGED <<argv, apiKey, args, raw, text, client, response, request,
                   summary, log, call>>

\* line 92: OpenAI(api_key=api_key) returns a client or raises
ConstructClient ==
    /\ pc = "client"
    /\ log' = Append(log, "construct_client")
    /\ \E ok \in BOOLEAN :
         IF ok
         THEN /\ client' = TRUE
              /\ pc' = "call"
              /\ outcome' = outcome
         ELSE /\ outcome' = Raise("OpenAIError", 1)
              /\ pc' = "exit"
              /\ client' = client
    /\ UNCHANGED <<argv, apiKey, args, raw, text, response, request, summary,
                   stdout, stderr, call>>

\* lines 94-98: summarize (lines 57-68) inside try/except Exception
CallRemote ==
    /\ pc = "call"
    /\ request' = BuildRequest(text, args.model, args.style, args.max_words)
    /\ log' = Append(log, "remote_call")
    /\ \E r \in RemoteOutcomes :
         /\ response' = r
         /\ IF Extract(r).ok
            THEN /\ summary' = Extract(r).val
                 /\ pc' = "print"
                 /\ UNCHANGED <<stdout, stderr, outcome>>
            ELSE /\ stdout' = ReportError(FormatError(Extract(r).msg), stdout, stderr).stdout
                 /\ stderr' = ReportError(FormatError(Extract(r).msg), stdout, stderr).stderr
                 /\ outcome' = Return(1)
                 /\ pc' = "exit"
                 /\ summary' = summary
    /\ UNCHANGED <<argv, apiKey, args, raw, text, client, call>>

\* lines 100-101
PrintResult ==
    /\ pc = "print"
    /\ stdout' = Append(stdout, [what |-> "summary", text |-> summary])
    /\ outcome' = Return(0)
    /\ pc' = "exit"
    /\ UNCHANGED <<argv, apiKey, args, raw, text, client, response, request,
                   summary, stderr, log, call>>

Next ==
    \/ ParseArgs
    \/ CheckCredential
    \/ ResolveInput
    \/ ValidateInput
    \/ ConstructClient
    \/ CallRemote
    \/ PrintResult

Spec == Init /\ [][Next]_vars

-----------------------------------------------------------------------------
(* Direct calls of build_prompt *)

PromptStyles == StyleChoices \cup {"unknown"}

InitPrompt ==
    /\ argv = [text |-> NoneVal, file |-> NoneVal, stdin |-> FALSE,
               model |-> NoneVal, style |-> NoneVal, max_words |-> NoneVal]
    /\ apiKey = NoneVal
    /\ pc = "idle"
    /\ args = NoArgs
    /\ raw = NoneVal
    /\ text = <<>>
    /\ client = FALSE
    /\ response = NoResponse
    /\ request = NoRequest
    /\ summary = <<>>
    /\ stdout = <<>>
    /\ stderr = <<>>
    /\ log = <<>>
    /\ outcome = Running
    /\ call \in [style : PromptStyles,
                 max_words : (0 - MinWordsBound)..MaxWordsBound,
                 returned : {FALSE}, result : {<<>>}]

CallBuildPrompt ==
    /\ ~call.returned
    /\ call' = [call EXCEPT !.returned = TRUE,
                            !.result = build_prompt(call.style, call.max_words)]
    /\ UNCHANGED <<argv, apiKey, pc, args, raw, text, client, response, request,
                   summary, stdout, stderr, log, outcome>>

NextPrompt == CallBuildPrompt

SpecPrompt == InitPrompt /\ [][NextPrompt]_vars

-----------------------------------------------------------------------------
(* Properties *)

Has(seq, e) == \E i \in 1..Len(seq) : seq[i] = e
Count(seq, e) == Cardinality({i \in 1..Len(seq) : seq[i] = e})
AllSpace(s) == \A i \in 1..Len(s) : IsSpace(s[i])
SummaryPrinted == \E i \in 1..Len(stdout) : stdout[i].what = "summary"
Exited == pc = "exit"

\* t is c without its leading and trailing whitespace
IsTrimOf(t, c) ==
    /\ t = <<>> \/ (~IsSpace(t[1]) /\ ~IsSpace(t[Len(t)]))
    /\ \E i \in 1..(Len(c) + 1) :
         /\ i + Len(t) - 1 <= Len(c)
         /\ t = SubSeq(c, i, i + Len(t) - 1)
         /\ AllSpace(SubSeq(c, 1, i - 1))
         /\ AllSpace(SubSeq(c, i + Len(t), Len(c)))

TwoSourcesGiven ==
    \/ argv.text.set /\ argv.file.set
    \/ argv.text.set /\ argv.stdin
    \/ argv.file.set /\ argv.stdin

\* C1: every run of main ends by main returning 0, 1 or 2; no exception
\* escapes main.
C1_MainAlwaysReturnsExitCode ==
    Exited => outcome.kind = "return" /\ outcome.code \in {0, 1, 2}

\* C2: when the arguments parse and the credential is unset or empty, main
\* reports an error naming the credential on stderr and returns 2, and the run
\* reads no input source, constructs no client and issues no remote call.
C2_MissingCredentialStopsBeforeInput ==
    (ParseErrors(argv) = {} /\ (~apiKey.set \/ apiKey.val = <<>>)) =>
        /\ log = <<>>
        /\ raw = NoneVal
        /\ ~client
        /\ request.kind = "none"
        /\ stdout = <<>>
        /\ pc \in {"parse", "cred", "exit"}
        /\ Exited => /\ outcome = Return(2)
                     /\ Len(stderr) = 1
                     /\ Has(stderr[1], "OPENAI_API_KEY")
                     /\ stderr[1][1] = "ERROR: "

C2_Witness ==
    /\ Exited
    /\ apiKey = Some(<<>>)
    /\ argv.file = Some(<<"f">>)
    /\ outcome = Return(2)
    /\ log = <<>>

\* C3: when the credential is present and the text read from the input source
\* is all whitespace (or empty), main reports an error on stderr and returns
\* 2; no client is constructed, no remote call is issued, no summary printed.
C3_EmptyInputReturns2 ==
    (raw.set /\ AllSpace(raw.val)) =>
        /\ Truthy(apiKey)
        /\ ~client
        /\ ~Has(log, "construct_client")
        /\ ~Has(log, "remote_call")
        /\ request.kind = "none"
        /\ ~SummaryPrinted
        /\ pc \in {"validate", "exit"}
        /\ Exited => outcome = Return(2) /\ stderr = <<NoInputError>>

C3_Witness ==
    /\ Exited
    /\ raw = Some(<<" ", "\n">>)
    /\ InputSource(args) = "file"
    /\ outcome = Return(2)

\* C4: when the remote call, or the extraction of the first choice's content,
\* raises an error with message m, main writes exactly "ERROR: m" to stderr,
\* returns 1 and prints no summary; the remote call is issued at most once in
\* every run.
C4_RemoteFailureReportedOnce ==
    /\ Count(log, "remote_call") <= 1
    /\ (response.kind # "none" /\ ~Extract(response).ok) =>
           /\ Exited
           /\ outcome = Return(1)
           /\ stderr = <<(<<"ERROR: ">> \o Extract(response).msg)>>
           /\ ~SummaryPrinted
    /\ response.kind = "raise" => stderr = <<(<<"ERROR: ">> \o response.msg)>>

C4_Witness ==
    /\ Exited
    /\ response.kind = "raise"
    /\ response.msg = <<"rate limit">>
    /\ stderr = <<(<<"ERROR: ", "rate limit">>)>>
    /\ outcome = Return(1)
    /\ Count(log, "remote_call") = 1

\* C5: when --file names a file that cannot be opened or decoded (credential
\* present), the failure is reported with a message on stderr and exit code 2
\* returned by main, before any remote call.
C5_FileFailureIsInvalidInput ==
    (Exited /\ Has(log, "open_file") /\ ~raw.set) =>
        /\ outcome = Return(2)
        /\ stderr # <<>>
        /\ ~Has(log, "remote_call")

\* C6: whenever --text was supplied (any value, the empty string included),
\* read_input returns that value unchanged and reads neither a file nor stdin;
\* the interactive prompt is printed only when none of --text, --file, --stdin
\* was supplied.
C6_TextArgumentAlwaysWins ==
    /\ argv.text.set =>
           /\ ~Has(log, "open_file")
           /\ ~Has(log, "read_stdin")
           /\ raw.set => raw.val = argv.text.val
    /\ Has(log, "prompt") => ~argv.text.set /\ ~argv.file.set /\ ~argv.stdin

\* C7: a command line with two or more of --text, --file, --stdin is rejected
\* by argument parsing, before the credential is checked, before any input is
\* read and before any remote call; every run that reaches input resolution
\* has at most one of the three set.
C7_SourcesMutuallyExclusive ==
    /\ TwoSourcesGiven =>
           /\ pc \in {"parse", "exit"}
           /\ args = NoArgs
           /\ log = <<>>
           /\ stdout = <<>>
           /\ ~client
           /\ Exited => /\ outcome = Raise("SystemExit", 2)
                        /\ Len(stderr) = 1
                        /\ stderr[1][1] = "usage: "
    /\ pc \notin {"parse", "exit"} =>
           /\ ~(args.text.set /\ args.file.set)
           /\ ~(args.text.set /\ args.stdin)
           /\ ~(args.file.set /\ args.stdin)

C7_Witness ==
    /\ Exited
    /\ argv.text.set /\ argv.file.set /\ argv.stdin
    /\ apiKey = NoneVal
    /\ outcome = Raise("SystemExit", 2)

\* C8: when the remote call returns a response whose first choice has content
\* c, main prints c without its leading and trailing whitespace to stdout and
\* returns 0 (content "X" prints "X"); main returns 0 only in runs where that
\* summary was printed.
C8_PrintsTrimmedFirstChoice ==
    /\ (Exited /\ response.kind = "ok" /\ Len(response.choices) > 0
        /\ response.choices[1].set) =>
           /\ outcome = Return(0)
           /\ Len(stdout) > 0
           /\ stdout[Len(stdout)].what = "summary"
           /\ IsTrimOf(stdout[Len(stdout)].text, response.choices[1].val)
           /\ response.choices[1].val = <<"X">> => stdout[Len(stdout)].text = <<"X">>
           /\ Count(log, "remote_call") = 1
    /\ (outcome.kind = "return" /\ outcome.code = 0) =>
           /\ response.kind = "ok"
           /\ Len(response.choices) > 0
           /\ response.choices[1].set
           /\ SummaryPrinted
           /\ ParseErrors(argv) = {}
           /\ Truthy(apiKey)
           /\ raw.set /\ ~AllSpace(raw.val)

C8_Witness ==
    /\ Exited
    /\ outcome = Return(0)
    /\ response.choices = <<Some(<<" ", "X">>), Some(OtherContent)>>
    /\ stdout[Len(stdout)] = [what |-> "summary", text |-> <<"X">>]

\* C9 as stated: a summary is written to stdout only after the single remote
\* call completed successfully, and a run in which main returns exit code 1 or
\* 2 has written nothing to stdout.
C9_NothingOnStdoutOnFailure ==
    /\ SummaryPrinted => response.kind = "ok" /\ Count(log, "remote_call") = 1
    /\ (Exited /\ outcome.kind = "return" /\ outcome.code \in {1, 2}) => stdout = <<>>

\* C9 amended: a summary is written to stdout only after the single remote
\* call completed successfully; a run that ends with exit code 1 or 2 (main
\* returning it, or an exception leaving main) has written no summary to
\* stdout, and the only thing it may have written there is the interactive
\* prompt of read_input's fallback, at most once.
C9_NoSummaryOnFailure ==
    /\ SummaryPrinted =>
           /\ response.kind = "ok"
           /\ Extract(response).ok
           /\ Count(log, "remote_call") = 1
           /\ outcome = Return(0)
    /\ (Exited /\ outcome.code \in {1, 2}) =>
           /\ ~SummaryPrinted
           /\ stdout \in {<<>>, <<InteractivePrompt>>}
           /\ stdout # <<>> => Has(log, "prompt")

C9_Witness ==
    /\ Exited
    /\ outcome = Return(1)
    /\ stdout = <<InteractivePrompt>>
    /\ response.kind = "raise"

ExpectedInstr(style) ==
    CASE style = "bullets" -> BulletsInstr
      [] style = "tl;dr" -> TldrInstr
      [] OTHER -> ParagraphInstr

\* the limit line of a prompt: the tokens between "Keep it under about " and
\* " words" read back as a decimal number
LimitOf(p) ==
    {IntOf(SubSeq(p, i + 1, j - 1)) :
        <<i, j>> \in {<<i, j>> \in (1..Len(p)) \X (1..Len(p)) :
                         /\ i + 1 < j
                         /\ p[i] = "Keep it under about "
                         /\ p[j] = " words"
                         /\ IsInt(SubSeq(p, i + 1, j - 1))}}

\* C10: build_prompt returns, for every style and max_words, a text that
\* starts with the 5-10 bullets instruction for "bullets", the TL;DR
\* instruction for "tl;dr" and the concise-paragraph instruction for every
\* other style, and that contains the "<max_words> words" limit line, the
\* preserve-key-facts line and the say-so-if-unclear line.
C10_BuildPromptMapping ==
    call.returned =>
        /\ call.result[1] = ExpectedInstr(call.style)
        /\ Cardinality({i \in 1..Len(call.result) :
                          call.result[i] \in {BulletsInstr, TldrInstr, ParagraphInstr}}) = 1
        /\ LimitOf(call.result) = {call.max_words}
        /\ Has(call.result, KeepFactsLine)
        /\ Has(call.result, SaySoLine)

C10_Witness ==
    /\ call.returned
    /\ call.style = "unknown"
    /\ call.max_words = 100
    /\ call.result[1] = ParagraphInstr
    /\ SubSeq(call.result, 3, 7) = <<"Keep it under about ", "1", "0", "0", " words">>

====
